---------------------------- MODULE Spec2Model ----------------------------
(* A model of the modore BACnet/IP stack: the message nexus (registries,   *)
(* RouteMessage, the default BVLC/NPDU router handler), the UDP connection *)
(* (listener and dispatch loop, Start/Stop), and the codecs the dispatch   *)
(* path runs on the bytes it receives.                                     *)
EXTENDS Integers, Sequences, FiniteSets, TLC

(***************************************************************************)
(* Bounds of the model.                                                    *)
(***************************************************************************)
\* datagrams that arrive at the socket in one run
MaxDatagrams == 2

(***************************************************************************)
(* Program constants.                                                      *)
(***************************************************************************)
BVLCType == 129
BVLCHeaderLength == 4
BVLCFunctionResult == 0
BVLCFunctioncWriteBroadcastDistributionTable == 1
BVLCFunctioncBroadcastDistributionTable == 2
BVLCFunctioncBroadcastDistributionTableAck == 3
BVLCFunctioncForwardedNPDU == 4
BVLCFunctioncUnicast == 10
BVLCFunctioncBroadcast == 11
NetworkLayerWhoIsMessage == 0
NetworkLayerIAmMessage == 1
DefaultProtocolVersion == 1
PDUTypeConfirmedServiceRequest == 0
PDUTypeUnconfirmedServiceRequest == 16
ServiceUnconfirmedIAm == 0
ServiceUnconfirmedWhoIs == 8
TagContextSpecificClass == 1
\* capacity of the connection's data channel and of the default handler's
\* BVLC and NPDU channels; user handlers (the tests') are unbuffered
DataChannelCap == 1
DefaultBVLCChannelCap == 1
DefaultNPDUChannelCap == 1

(***************************************************************************)
(* Unsigned arithmetic on machine words.                                   *)
(***************************************************************************)
RECURSIVE Pow2(_)
Pow2(n) == IF n = 0 THEN 1 ELSE 2 * Pow2(n - 1)

RECURSIVE BitAnd(_, _)
BitAnd(a, b) ==
    IF a = 0 \/ b = 0 THEN 0
    ELSE (IF a % 2 = 1 /\ b % 2 = 1 THEN 1 ELSE 0) + 2 * BitAnd(a \div 2, b \div 2)

RECURSIVE BitOr(_, _)
BitOr(a, b) ==
    IF a = 0 THEN b
    ELSE IF b = 0 THEN a
    ELSE (IF a % 2 = 1 \/ b % 2 = 1 THEN 1 ELSE 0) + 2 * BitOr(a \div 2, b \div 2)

\* x << n and x >> n on a w-bit unsigned word
Shl(x, n, w) == (x * Pow2(n)) % Pow2(w)
Shr(x, n) == x \div Pow2(n)

\* bytes.Buffer: Read(p) of n bytes from the unread part q
Take(q, n) == SubSeq(q, 1, IF n < Len(q) THEN n ELSE Len(q))
Drop(q, n) == SubSeq(q, (IF n < Len(q) THEN n ELSE Len(q)) + 1, Len(q))

(***************************************************************************)
(* Machine words wider than 31 bits are kept as sequences of bits, the     *)
(* most significant first.  Go's uint is 64 bits wide, uint32 32.          *)
(***************************************************************************)
UintWidth == 64
Uint32Width == 32

\* bit k (0 = least significant) of a natural number below 2^31
NatBit(n, k) == IF k >= 31 THEN 0 ELSE (n \div Pow2(k)) % 2
NatToBits(n, w) == [i \in 1..w |-> NatBit(n, w - i)]

RECURSIVE BitsToNat(_)
BitsToNat(b) ==
    IF b = <<>> THEN 0
    ELSE b[Len(b)] + 2 * BitsToNat(SubSeq(b, 1, Len(b) - 1))

ZeroBits(w) == [i \in 1..w |-> 0]
\* conversion between widths: truncation keeps the low bits
ResizeBits(b, w) ==
    [i \in 1..w |-> IF i + Len(b) - w >= 1 THEN b[i + Len(b) - w] ELSE 0]
AndBits(a, b) == [i \in 1..Len(a) |-> IF a[i] = 1 /\ b[i] = 1 THEN 1 ELSE 0]
OrBits(a, b) == [i \in 1..Len(a) |-> IF a[i] = 1 \/ b[i] = 1 THEN 1 ELSE 0]
ShlBits(b, n) == [i \in 1..Len(b) |-> IF i + n <= Len(b) THEN b[i + n] ELSE 0]
ShrBits(b, n) == [i \in 1..Len(b) |-> IF i - n >= 1 THEN b[i - n] ELSE 0]
\* a hexadecimal constant written as its bytes
BytesToBits(bytes) ==
    [i \in 1..(8 * Len(bytes)) |-> NatBit(bytes[((i - 1) \div 8) + 1], 7 - ((i - 1) % 8))]

(***************************************************************************)
(* internal/apdu/tags.go: the unsigned-integer helpers.                    *)
(***************************************************************************)
\* EncodeUint on a 64-bit value:
\* buf[i] = byte((val & (0xFF << shift)) >> shift), shift = (numBytes-1-i)*8
EncodeUintBits(val, numBytes) ==
    [i \in 1..numBytes |->
        BitsToNat(SubSeq(val, UintWidth - 8 * (numBytes - i) - 7,
                              UintWidth - 8 * (numBytes - i)))]

\* DecodeUint: val += uint(raw[i]) << shift, shift = (numBytes-1-i)*8
DecodeUintBits(raw) == ResizeBits(BytesToBits(raw), UintWidth)

\* a <= b on two words of the same width
LeqBits(a, b) ==
    \/ a = b
    \/ \E i \in 1..Len(a) :
          /\ a[i] < b[i]
          /\ \A j \in 1..(i - 1) : a[j] = b[j]

\* the 64-bit constant 2^(8n) - 1: 0xFF, 0xFFFF, ...
MaxOfBytes(n) == [i \in 1..UintWidth |-> IF i > UintWidth - 8 * n THEN 1 ELSE 0]

\* a byte-size function whose comparisons are strict
GetUnsignedIntByteSizeStrict(val) ==
    IF \E n \in 1..7 : val # MaxOfBytes(n) /\ LeqBits(val, MaxOfBytes(n))
    THEN CHOOSE n \in 1..7 :
            /\ val # MaxOfBytes(n) /\ LeqBits(val, MaxOfBytes(n))
            /\ \A k \in 1..(n - 1) : ~(val # MaxOfBytes(k) /\ LeqBits(val, MaxOfBytes(k)))
    ELSE 8

GetUnsignedIntByteSize(val) ==
    IF LeqBits(val, MaxOfBytes(1)) THEN 1
    ELSE IF LeqBits(val, MaxOfBytes(2)) THEN 2
    ELSE IF LeqBits(val, MaxOfBytes(3)) THEN 3
    ELSE IF LeqBits(val, MaxOfBytes(4)) THEN 4
    ELSE IF LeqBits(val, MaxOfBytes(5)) THEN 5
    ELSE IF LeqBits(val, MaxOfBytes(6)) THEN 6
    ELSE IF LeqBits(val, MaxOfBytes(7)) THEN 7
    ELSE 8

EncodeUint(val, numBytes) == EncodeUintBits(NatToBits(val, UintWidth), numBytes)
DecodeUint(raw) == BitsToNat(DecodeUintBits(raw))

(***************************************************************************)
(* internal/apdu/tags.go: the control byte of a tag.                       *)
(***************************************************************************)
\* returns the new control byte and the trailing tag bytes (<<>> for nil)
encodeTagNumber(control, tagNumber) ==
    IF tagNumber < 14
    THEN [control |-> Shl(tagNumber, 4, 8), bytes |-> <<>>]
    ELSE [control |-> BitOr(240, control), bytes |-> <<tagNumber>>]

encodeClass(control, t) == BitOr(control, Shl(t, 3, 8))

\* encodeLength on a 64-bit length.  The last branch stores into
\* lengthBytes[0] of a nil slice: the run panics
encodeLengthBits(control, len) ==
    IF LeqBits(len, NatToBits(4, UintWidth))
    THEN [res |-> "ok", control |-> BitOr(control, BitsToNat(ResizeBits(len, 8))),
          bytes |-> <<>>]
    ELSE IF LeqBits(len, NatToBits(253, UintWidth))
    THEN [res |-> "ok", control |-> BitOr(control, 5), bytes |-> EncodeUintBits(len, 1)]
    ELSE IF LeqBits(len, NatToBits(65535, UintWidth))
    THEN [res |-> "ok", control |-> BitOr(control, 5),
          bytes |-> <<254>> \o EncodeUintBits(len, 2)]
    ELSE [res |-> "panic", control |-> BitOr(control, 5), bytes |-> <<>>]

encodeLength(control, len) == encodeLengthBits(control, NatToBits(len, UintWidth))

\* The decoders of the control byte are called by the tag decoders; they are
\* the inverse the specification and the tests of the tag encoders describe.
decodeTagNumber(control, buf) ==
    IF Shr(control, 4) < 15
    THEN [res |-> "ok", tagNumber |-> Shr(control, 4), rest |-> buf]
    ELSE IF buf = <<>>
    THEN [res |-> "insufficient-data", tagNumber |-> 0, rest |-> buf]
    ELSE [res |-> "ok", tagNumber |-> Head(buf), rest |-> Tail(buf)]

decodeClass(control) == Shr(BitAnd(control, 8), 3)

decodeLength(control, buf) ==
    LET lvt == BitAnd(control, 7) IN
    IF lvt <= 4 THEN [res |-> "ok", len |-> lvt, rest |-> buf]
    ELSE IF lvt > 5 THEN [res |-> "invalid-data", len |-> 0, rest |-> buf]
    ELSE IF buf = <<>> THEN [res |-> "insufficient-data", len |-> 0, rest |-> buf]
    ELSE IF Head(buf) <= 253
    THEN [res |-> "ok", len |-> Head(buf), rest |-> Tail(buf)]
    ELSE LET n == IF Head(buf) = 254 THEN 2 ELSE 4 IN
         IF Len(buf) < 1 + n
         THEN [res |-> "insufficient-data", len |-> 0, rest |-> buf]
         ELSE [res |-> "ok", len |-> DecodeUint(SubSeq(buf, 2, 1 + n)),
               rest |-> Drop(buf, 1 + n)]

(***************************************************************************)
(* internal/apdu/context_specific.go: the object identifier.               *)
(***************************************************************************)
ObjectTypeCheckMask == BytesToBits(<<0, 0, 252, 0>>)         \* 0xFC00
ObjectInstanceCheckMask == BytesToBits(<<255, 128, 0, 0>>)   \* 0xFF800000
ObjectTypeDecodeMask == BytesToBits(<<255, 176, 0, 0>>)      \* 0xFFB00000
ObjectInstanceDecodeMask == BytesToBits(<<0, 63, 255, 255>>) \* 0x003FFFFF

NewContextSpecificObjectID(tagNumber, objectType, objectInstance) ==
    IF \/ AndBits(NatToBits(objectType, Uint32Width), ObjectTypeCheckMask)
             # ZeroBits(Uint32Width)
       \/ AndBits(NatToBits(objectInstance, Uint32Width), ObjectInstanceCheckMask)
             # ZeroBits(Uint32Width)
    THEN [res |-> "invalid-data"]
    ELSE [res |-> "ok", TagNumber |-> tagNumber,
          objectType |-> objectType, objectInstance |-> objectInstance]

\* the 32-bit word (objectType << 22) | objectInstance
ObjectIDStuffedVal(p) ==
    OrBits(ShlBits(NatToBits(p.objectType, Uint32Width), 22),
           NatToBits(p.objectInstance, Uint32Width))

ObjectIDEncodeAsTagData(p) ==
    LET t == encodeTagNumber(0, p.TagNumber)
        c == encodeClass(t.control, TagContextSpecificClass)
        l == encodeLength(c, 4)
    IN  IF l.res # "ok" THEN [res |-> l.res, bytes |-> <<>>]
        ELSE [res |-> "ok",
              bytes |-> <<l.control>> \o t.bytes \o l.bytes
                        \o EncodeUintBits(ResizeBits(ObjectIDStuffedVal(p), UintWidth), 4)]

NewContextSpecificObjectIDFromBytes(tagBuf) ==
    IF tagBuf = <<>> THEN [res |-> "EOF"]
    ELSE
    LET control == Head(tagBuf)
        t == decodeTagNumber(control, Tail(tagBuf))
        l == decodeLength(control, t.rest)
        valBuf == Take(l.rest, l.len)
        stuffedValue == ResizeBits(DecodeUintBits(valBuf), Uint32Width)
    IN  IF t.res # "ok" THEN [res |-> t.res]
        ELSE IF decodeClass(control) # TagContextSpecificClass
        THEN [res |-> "expected-context-specific"]
        ELSE IF l.res # "ok" THEN [res |-> l.res]
        ELSE IF l.len # 4 THEN [res |-> "invalid-data"]
        ELSE IF l.rest = <<>> THEN [res |-> "EOF"]
        ELSE IF Len(valBuf) # l.len THEN [res |-> "insufficient-data"]
        ELSE [res |-> "ok", TagNumber |-> t.tagNumber,
              objectType |-> BitsToNat(ShrBits(AndBits(stuffedValue, ObjectTypeDecodeMask), 22)),
              objectInstance |-> BitsToNat(AndBits(stuffedValue, ObjectInstanceDecodeMask)),
              rest |-> Drop(l.rest, l.len)]

(***************************************************************************)
(* internal/apdu/context_specific.go: the unsigned integer tag.            *)
(***************************************************************************)
NewContextSpecificUnsignedIntFromBytes(tagBuf) ==
    IF tagBuf = <<>> THEN [res |-> "EOF"]
    ELSE
    LET control == Head(tagBuf)
        t == decodeTagNumber(control, Tail(tagBuf))
        l == decodeLength(control, t.rest)
        valBuf == Take(l.rest, l.len)
    IN  IF t.res # "ok" THEN [res |-> t.res]
        ELSE IF decodeClass(control) # TagContextSpecificClass
        THEN [res |-> "expected-context-specific"]
        ELSE IF l.res # "ok" THEN [res |-> l.res]
        ELSE IF l.len > 0 /\ l.rest = <<>> THEN [res |-> "EOF"]
        ELSE IF Len(valBuf) # l.len THEN [res |-> "insufficient-data"]
        ELSE [res |-> "ok", TagNumber |-> t.tagNumber,
              val |-> DecodeUintBits(valBuf), rest |-> Drop(l.rest, l.len)]

(***************************************************************************)
(* The APDU decoder (apdu.NewMessageFromBytes).  A decoded message is      *)
(* reduced to what the dispatch path reads: its PDU type and service.      *)
(***************************************************************************)
newConfirmedMessageFromBytes(pdu, data) ==
    IF Len(data) < 3 THEN [res |-> "insufficient-length"]
    ELSE LET IsSegmented == BitAnd(data[1], 4) # 0
             currByteIndex == IF IsSegmented THEN 5 ELSE 3
         IN  IF IsSegmented /\ Len(data) < 5 THEN [res |-> "insufficient-length"]
             \* data[currByteIndex] past the end of the slice: the run panics
             ELSE IF Len(data) < currByteIndex + 1 THEN [res |-> "panic"]
             ELSE [res |-> "ok", pdu |-> pdu, confirmed |-> TRUE,
                   ServiceID |-> data[currByteIndex + 1],
                   IsSegmented |-> IsSegmented,
                   SequenceNumber |-> IF IsSegmented THEN <<data[4]>> ELSE <<>>,
                   ProposedWindowSize |-> IF IsSegmented THEN <<data[5]>> ELSE <<>>]

newUnconfirmedMessageFromBytes(pdu, data) ==
    IF Len(data) < 2 THEN [res |-> "insufficient-length"]
    ELSE IF data[2] = ServiceUnconfirmedIAm
    THEN [res |-> "ok", pdu |-> pdu, confirmed |-> FALSE, ServiceID |-> data[2],
          ServiceData |-> <<>>]
    ELSE IF data[2] = ServiceUnconfirmedWhoIs
    THEN LET lowTag == NewContextSpecificUnsignedIntFromBytes(Drop(data, 2))
             highTag == NewContextSpecificUnsignedIntFromBytes(lowTag.rest)
         IN  IF lowTag.res # "ok" THEN [res |-> lowTag.res]
             ELSE IF highTag.res # "ok" THEN [res |-> highTag.res]
             ELSE [res |-> "ok", pdu |-> PDUTypeUnconfirmedServiceRequest,
                   confirmed |-> FALSE, ServiceID |-> ServiceUnconfirmedWhoIs,
                   ServiceData |-> <<[TagNumber |-> lowTag.TagNumber, val |-> lowTag.val],
                                     [TagNumber |-> highTag.TagNumber, val |-> highTag.val]>>]
    ELSE [res |-> "not-implemented"]

apduNewMessageFromBytes(data) ==
    IF Len(data) < 1 THEN [res |-> "no-message"]
    ELSE LET pduType == BitAnd(data[1], 240) IN
         IF pduType = PDUTypeConfirmedServiceRequest
         THEN newConfirmedMessageFromBytes(pduType, data)
         ELSE IF pduType = PDUTypeUnconfirmedServiceRequest
         THEN newUnconfirmedMessageFromBytes(pduType, data)
         ELSE [res |-> "unimplemented-pdu-type"]

\* an encoder that always writes the value in four bytes
UnsignedIntEncodeAsTagDataFixed(p) ==
    LET t == encodeTagNumber(0, p.TagNumber)
        c == encodeClass(t.control, TagContextSpecificClass)
        l == encodeLength(c, 4)
    IN  [res |-> "ok",
         bytes |-> <<l.control>> \o t.bytes \o l.bytes \o EncodeUintBits(p.val, 4)]

\* EncodeAsTagData of ContextSpecificUnsignedIntType
UnsignedIntEncodeAsTagData(p) ==
    LET t == encodeTagNumber(0, p.TagNumber)
        c == encodeClass(t.control, TagContextSpecificClass)
        length == GetUnsignedIntByteSize(p.val)
        l == encodeLength(c, length)
    IN  IF l.res # "ok" THEN [res |-> l.res, bytes |-> <<>>]
        ELSE [res |-> "ok",
              bytes |-> <<l.control>> \o t.bytes \o l.bytes \o EncodeUintBits(p.val, length)]

\* the loop over um.ServiceData: the bytes of every parameter, in order
RECURSIVE EncodeServiceData(_)
EncodeServiceData(params) ==
    IF params = <<>> THEN [res |-> "ok", bytes |-> <<>>]
    ELSE LET first == UnsignedIntEncodeAsTagData(Head(params))
             others == EncodeServiceData(Tail(params))
         IN  IF first.res # "ok" THEN first
             ELSE IF others.res # "ok" THEN others
             ELSE [res |-> "ok", bytes |-> first.bytes \o others.bytes]

UnconfirmedMessageEncode(um) ==
    LET params == EncodeServiceData(um.ServiceData) IN
    IF params.res # "ok" THEN params
    ELSE [res |-> "ok", bytes |-> <<um.pdu, um.ServiceID>> \o params.bytes]

ConfirmedMessageEncode(cm) == [res |-> "not-implemented", bytes |-> <<>>]

\* Encode of the apdu.Message interface
apduEncode(a) ==
    IF a.confirmed THEN ConfirmedMessageEncode(a) ELSE UnconfirmedMessageEncode(a)

\* NewWhoisMessage on two 64-bit limits: tag 0 carries low, tag 1 carries high
NewWhoisMessageBits(low, high) ==
    [res |-> "ok", pdu |-> PDUTypeUnconfirmedServiceRequest, confirmed |-> FALSE,
     ServiceID |-> ServiceUnconfirmedWhoIs,
     ServiceData |-> <<[TagNumber |-> 0, val |-> low], [TagNumber |-> 1, val |-> high]>>]

NewWhoisMessage(low, high) ==
    NewWhoisMessageBits(NatToBits(low, UintWidth), NatToBits(high, UintWidth))

(***************************************************************************)
(* pkg/npdu: the control byte and the addresses, and the NPDU decoder,     *)
(* which follows the wire layout of the NPDU encoder.                      *)
(***************************************************************************)
\* 1 for a set flag
FlagBit(flag) == IF flag THEN 1 ELSE 0

\* an encoder that leaves no room for the two reserved bits
encodeControlPacked(ctrl) ==
    BitOr(Shl(BitOr(Shl(BitOr(Shl(BitOr(Shl(FlagBit(ctrl.IsNDSUNetworkLayerMessage), 1, 8),
                                        FlagBit(ctrl.DestinationAddressPresent)), 1, 8),
                              FlagBit(ctrl.SourceAddressPresent)), 1, 8),
                    FlagBit(ctrl.IsBACNetConfirmedRequestPDUPresent)), 2, 8),
          ctrl.Priority)

\* encoded |= flag, then encoded << n, from the most significant flag down
encodeControl(ctrl) ==
    LET e1 == Shl(BitOr(0, FlagBit(ctrl.IsNDSUNetworkLayerMessage)), 2, 8)
        e2 == Shl(BitOr(e1, FlagBit(ctrl.DestinationAddressPresent)), 2, 8)
        e3 == Shl(BitOr(e2, FlagBit(ctrl.SourceAddressPresent)), 1, 8)
        e4 == Shl(BitOr(e3, FlagBit(ctrl.IsBACNetConfirmedRequestPDUPresent)), 2, 8)
    IN  BitOr(e4, ctrl.Priority)

decodeControl(data) ==
    [IsNDSUNetworkLayerMessage |-> BitAnd(data, 128) # 0,
     DestinationAddressPresent |-> BitAnd(data, 32) # 0,
     SourceAddressPresent |-> BitAnd(data, 8) # 0,
     IsBACNetConfirmedRequestPDUPresent |-> BitAnd(data, 4) # 0,
     Priority |-> BitAnd(data, 3)]

readDoubleByte(buf) ==
    IF Len(buf) < 2 THEN [res |-> "short-read", rest |-> buf]
    ELSE [res |-> "ok", val |-> buf[1] * 256 + buf[2], rest |-> Drop(buf, 2)]

readAddress(buf) ==
    LET db == readDoubleByte(buf) IN
    IF db.res # "ok" THEN [res |-> db.res, rest |-> buf]
    ELSE IF db.rest = <<>> THEN [res |-> "EOF", rest |-> buf]
    ELSE LET length == Head(db.rest)
             body == Tail(db.rest)
         IN  IF length > 0 /\ body = <<>> THEN [res |-> "EOF", rest |-> buf]
             ELSE IF Len(body) < length THEN [res |-> "short-read", rest |-> buf]
             ELSE [res |-> "ok", Network |-> db.val, Length |-> length,
                   Addr |-> Take(body, length), rest |-> Drop(body, length)]

writeDoubleByte(db) == <<db \div 256, db % 256>>

\* the Length byte is written as it stands; the whole of Addr follows it
\* whenever Length is not 0
writeAddress(addr) ==
    writeDoubleByte(addr.Network) \o <<addr.Length>>
        \o (IF addr.Length > 0 THEN addr.Addr ELSE <<>>)

\* Message.Encode.  An optional field (*Address, *uint16) is a sequence of
\* at most one element, <<>> being nil; writeAddress on a nil address
\* dereferences it
npduEncode(m) ==
    IF m.Control.DestinationAddressPresent /\ m.Destination = <<>>
    THEN [res |-> "panic", bytes |-> <<>>]
    ELSE IF m.Control.SourceAddressPresent /\ m.Source = <<>>
    THEN [res |-> "panic", bytes |-> <<>>]
    ELSE
    LET head == <<m.ProtocolVersion, encodeControl(m.Control)>>
                \o (IF m.Control.DestinationAddressPresent
                    THEN writeAddress(m.Destination[1]) ELSE <<>>)
                \o (IF m.Control.SourceAddressPresent
                    THEN writeAddress(m.Source[1]) ELSE <<>>)
                \o (IF m.Control.DestinationAddressPresent THEN <<m.HopCount>> ELSE <<>>)
    IN  IF m.Control.IsNDSUNetworkLayerMessage
        THEN [res |-> "ok", bytes |-> head \o <<m.MessageType>>]
        ELSE IF m.APDU.res # "nil"
        THEN LET apduBytes == apduEncode(m.APDU) IN
             IF apduBytes.res # "ok" THEN [res |-> apduBytes.res, bytes |-> <<>>]
             ELSE [res |-> "ok", bytes |-> head \o apduBytes.bytes]
        ELSE [res |-> "no-apdu", bytes |-> <<>>]

\* the Address a successful readAddress returns
AddressRead(r) == [Network |-> r.Network, Length |-> r.Length, Addr |-> r.Addr]

\* what remains of an NPDU after the optional addresses and the hop count
npduAfterAddresses(ctrl, buf) ==
    LET dst == IF ctrl.DestinationAddressPresent THEN readAddress(buf)
               ELSE [res |-> "ok", rest |-> buf]
        src == IF ctrl.SourceAddressPresent THEN readAddress(dst.rest)
               ELSE [res |-> "ok", rest |-> dst.rest]
        Destination == IF ctrl.DestinationAddressPresent THEN <<AddressRead(dst)>> ELSE <<>>
        Source == IF ctrl.SourceAddressPresent THEN <<AddressRead(src)>> ELSE <<>>
    IN  IF dst.res # "ok" \/ src.res # "ok" THEN [res |-> "invalid-data", rest |-> <<>>]
        ELSE IF ~ctrl.DestinationAddressPresent
        THEN [res |-> "ok", rest |-> src.rest, Destination |-> Destination,
              Source |-> Source, HopCount |-> <<>>]
        ELSE IF src.rest = <<>> THEN [res |-> "invalid-data", rest |-> <<>>]
        ELSE [res |-> "ok", rest |-> Tail(src.rest), Destination |-> Destination,
              Source |-> Source, HopCount |-> <<Head(src.rest)>>]

\* message types 0x80..0xFF are the proprietary ones: they carry a vendor id
IsProprietary(messageType) == messageType >= 128

npduNewMessageFromBytes(data) ==
    IF Len(data) < 2 THEN [res |-> "invalid-data"]
    ELSE IF data[1] # DefaultProtocolVersion THEN [res |-> "invalid-data"]
    ELSE LET ctrl == decodeControl(data[2])
             body == npduAfterAddresses(ctrl, Drop(data, 2))
         IN  IF body.res # "ok" THEN [res |-> "invalid-data"]
             ELSE IF ctrl.IsNDSUNetworkLayerMessage
             THEN IF body.rest = <<>> THEN [res |-> "invalid-data"]
                  ELSE IF IsProprietary(Head(body.rest)) /\ Len(body.rest) < 3
                  THEN [res |-> "invalid-data"]
                  ELSE [res |-> "ok", isNetwork |-> TRUE,
                        MessageType |-> Head(body.rest), APDU |-> [res |-> "nil"],
                        ProtocolVersion |-> data[1], Control |-> ctrl,
                        Destination |-> body.Destination, Source |-> body.Source,
                        HopCount |-> body.HopCount,
                        VendorID |-> IF IsProprietary(Head(body.rest))
                                     THEN <<body.rest[2] * 256 + body.rest[3]>>
                                     ELSE <<>>]
             ELSE LET a == apduNewMessageFromBytes(body.rest) IN
                  IF a.res # "ok" THEN [res |-> a.res]
                  ELSE [res |-> "ok", isNetwork |-> FALSE,
                        MessageType |-> NetworkLayerWhoIsMessage, APDU |-> a,
                        ProtocolVersion |-> data[1], Control |-> ctrl,
                        Destination |-> body.Destination, Source |-> body.Source,
                        HopCount |-> body.HopCount, VendorID |-> <<>>]

(***************************************************************************)
(* pkg/transport: the BVLC decoder.                                        *)
(***************************************************************************)
\* a check that lets every function byte through
verifyFunctionAny(maybe) == maybe \in 0..255

verifyFunction(maybe) ==
    maybe \in {BVLCFunctionResult, BVLCFunctioncWriteBroadcastDistributionTable,
               BVLCFunctioncBroadcastDistributionTable,
               BVLCFunctioncBroadcastDistributionTableAck,
               BVLCFunctioncForwardedNPDU, BVLCFunctioncUnicast,
               BVLCFunctioncBroadcast}

\* msgLength - BVLCHeaderLength is unsigned: a declared length below the
\* header length wraps around and make([]byte, dataLength) panics
NewBVLCMessageFromBytes(encoded) ==
    IF encoded = <<>> THEN [res |-> "EOF"]
    ELSE IF encoded[1] # BVLCType THEN [res |-> "type-mismatch"]
    ELSE IF Len(encoded) < 2 THEN [res |-> "EOF"]
    ELSE IF ~verifyFunction(encoded[2]) THEN [res |-> "invalid-function"]
    ELSE IF Len(encoded) < 3 THEN [res |-> "EOF"]
    ELSE IF Len(encoded) < 4 THEN [res |-> "short-length"]
    ELSE LET msgLength == DecodeUint(SubSeq(encoded, 3, 4))
             dataLength == msgLength - BVLCHeaderLength
             body == Drop(encoded, 4)
         IN  IF msgLength < BVLCHeaderLength THEN [res |-> "panic"]
             ELSE IF dataLength > 0 /\ body = <<>> THEN [res |-> "EOF"]
             ELSE IF Len(body) < dataLength THEN [res |-> "short-data"]
             ELSE [res |-> "ok", Function |-> encoded[2],
                   Data |-> Take(body, dataLength)]

\* Encode of a BVLCMessage: the length is written in two bytes, whatever
\* len(m.Data) + 4 is
BVLCMessageEncode(m) ==
    <<BVLCType, m.Function>> \o EncodeUint(Len(m.Data) + 4, 2) \o m.Data

\* part_003: the hop count of every message the connection sends
DefaultHopCount == 255

NewControl(priority, isBACNetConfirmedRequestPDUPresent, sourceAddressPresent, destinationAddressPresent, isNDSUNetworkLayerMessage) ==
    [Priority |-> priority,
     IsBACNetConfirmedRequestPDUPresent |-> isBACNetConfirmedRequestPDUPresent,
     SourceAddressPresent |-> sourceAddressPresent,
     DestinationAddressPresent |-> destinationAddressPresent,
     IsNDSUNetworkLayerMessage |-> isNDSUNetworkLayerMessage]

\* SendUnconfirmedMessage up to the write on the socket: the frame handed
\* to WriteTo, or the error of the NPDU encoder
SendUnconfirmedMessage(priority, msgType, msg) ==
    LET control == NewControl(priority, FALSE, FALSE, FALSE, FALSE)
        npduMsg == [ProtocolVersion |-> DefaultProtocolVersion, Control |-> control,
                    Destination |-> <<>>, Source |-> <<>>, HopCount |-> DefaultHopCount,
                    MessageType |-> msgType, VendorID |-> <<>>, APDU |-> msg]
        npduBytes == npduEncode(npduMsg)
    IN  IF npduBytes.res # "ok" THEN [res |-> npduBytes.res, msgBytes |-> <<>>]
        ELSE [res |-> "ok",
              msgBytes |-> BVLCMessageEncode([Function |-> BVLCFunctioncBroadcast,
                                              Data |-> npduBytes.bytes])]

getNPDUMessageFromBVLCMessage(msg) ==
    IF msg.Function # BVLCFunctioncBroadcast /\ msg.Function # BVLCFunctioncUnicast
    THEN [res |-> "invalid-function-for-handler"]
    ELSE npduNewMessageFromBytes(msg.Data)

(***************************************************************************)
(* The datagrams the environment delivers to the socket.                   *)
(***************************************************************************)
\* Original-Broadcast, NPDU control 0, unconfirmed WhoIs(0, 999)
DgWhoIs == <<129, 11, 0, 13, 1, 0, 16, 8, 9, 0, 26, 3, 231>>
\* Original-Unicast, NPDU control 4, confirmed request, service 12
DgConfirmed == <<129, 10, 0, 10, 1, 4, 0, 5, 1, 12>>
\* BVLC-Result with a two-byte result code
DgResult == <<129, 0, 0, 6, 0, 0>>
\* first byte is not the BVLC type
DgMalformed == <<128, 11, 0, 4>>

Datagrams == {DgWhoIs, DgConfirmed, DgResult, DgMalformed}

(***************************************************************************)
(* The registries (part_004: registerGeneric, isRegistered).  A registry   *)
(* is a map from a filter to the list of handlers stored under it.         *)
(***************************************************************************)
DefaultHandler == "D"

\* a registry that never finds a handler in a list
isRegisteredNever(handler, existing) == FALSE

isRegistered(handler, existing) == \E i \in 1..Len(existing) : existing[i] = handler

\* lines 194-202: the list found under newFilter, <<>> for nil
registerSnapshot(newFilter, handlerMap) ==
    IF newFilter \in DOMAIN handlerMap THEN handlerMap[newFilter] ELSE <<>>

\* lines 204-213: the map after the store
registerStore(newFilter, handler, writeHandlers, handlerMap) ==
    LET stored == IF writeHandlers # <<>>
                  THEN IF ~isRegistered(handler, writeHandlers)
                       THEN Append(writeHandlers, handler)
                       ELSE writeHandlers
                  ELSE <<handler>>
    IN  [f \in (DOMAIN handlerMap) \cup {newFilter} |->
            IF f = newFilter THEN stored ELSE handlerMap[f]]

registerGeneric(newFilter, handler, handlerMap) ==
    registerStore(newFilter, handler, registerSnapshot(newFilter, handlerMap), handlerMap)

EmptyRegistry == [f \in {} |-> <<>>]

\* the handlers of the application: the tests' handlers, one per level
BVLCHandlers == {DefaultHandler, "b1"}
NPDUHandlers == {DefaultHandler, "n1"}
APDUHandlers == {"a1"}

\* the registrations the application makes
BVLCRegistrations == {<<BVLCFunctioncUnicast, "b1">>, <<BVLCFunctionResult, "b1">>}
NPDURegistrations == {<<NetworkLayerIAmMessage, "n1">>}
APDURegistrations == {<<ServiceUnconfirmedWhoIs, "a1">>}

\* a filter rule that asks for equality
MatchesEqual(filter, x) == filter = x

\* filter&uint8(x) != 0
Matches(filter, x) == BitAnd(filter, x) # 0

\* the orders in which a range over a map may visit the keys in S
RECURSIVE KeyOrders(_)
KeyOrders(S) ==
    IF S = {} THEN {<<>>}
    ELSE UNION {{<<k>> \o rest : rest \in KeyOrders(S \ {k})} : k \in S}

\* the handlers visited by the nested loops, for one order of the keys
RECURSIVE HandlersInOrder(_, _)
HandlersInOrder(keys, handlerMap) ==
    IF keys = <<>> THEN <<>>
    ELSE handlerMap[Head(keys)] \o HandlersInOrder(Tail(keys), handlerMap)

\* the tasks of the application that call Register*Handler concurrently
RegTasks == {"t1", "t2"}

VARIABLES
    bvlcRegistry, npduRegistry, apduRegistry,  \* MessageNexus maps
    cpc,          \* connection: "new", "running", "stopping", "stopped"
    npc,          \* nexus: "new", "running", "stopping", "stopped"
    arrived,      \* every datagram that reached the socket, in arrival order
    socket,       \* indices into arrived the listener has not read yet
    dataChannel,  \* connection.Start: make(chan incomingData, 1)
    lpc,          \* loopForever: "idle", "select", "routing", "exited"
    loopMsg,      \* the datagram RouteMessage is routing, 0 for none
    routeTargets, \* handlers RouteMessage has still to send to
    bvlcCh, npduCh,   \* channels of the default handler
    g1pc, g1Msg, g1Targets,  \* first goroutine of BVLCNPDURouterHandler.Start
    g2pc, g2Msg, g2Targets,  \* second goroutine
    sentBVLC, sentNPDU, sentAPDU,  \* per handler, the messages sent on its channel
    rtask,        \* per registering task, where it is in registerGeneric
    codecIn, codecOut  \* a call of a codec function and its result

vars == <<bvlcRegistry, npduRegistry, apduRegistry, cpc, npc, arrived, socket,
          dataChannel, lpc, loopMsg, routeTargets, bvlcCh, npduCh,
          g1pc, g1Msg, g1Targets, g2pc, g2Msg, g2Targets,
          sentBVLC, sentNPDU, sentAPDU, rtask, codecIn, codecOut>>

registryVars == <<bvlcRegistry, npduRegistry, apduRegistry>>
taskVars == <<rtask>>
connVars == <<cpc, arrived, socket, dataChannel, lpc, loopMsg, routeTargets>>
nexusVars == <<npc, bvlcCh, npduCh, g1pc, g1Msg, g1Targets, g2pc, g2Msg, g2Targets>>
sentVars == <<sentBVLC, sentNPDU, sentAPDU>>
codecVars == <<codecIn, codecOut>>

NoCall == [op |-> "none"]
NoResult == [res |-> "none"]

\* NewMessageNexus, NewConnection: nothing started yet
InitDispatch ==
    /\ bvlcRegistry = registerGeneric(BitOr(BVLCFunctioncBroadcast, BVLCFunctioncUnicast),
                                      DefaultHandler, EmptyRegistry)
    /\ npduRegistry = registerGeneric(BitOr(NetworkLayerWhoIsMessage, NetworkLayerIAmMessage),
                                      DefaultHandler, EmptyRegistry)
    /\ apduRegistry = EmptyRegistry
    /\ cpc = "new" /\ npc = "new"
    /\ arrived = <<>> /\ socket = <<>> /\ dataChannel = <<>>
    /\ lpc = "idle" /\ loopMsg = 0 /\ routeTargets = <<>>
    /\ bvlcCh = <<>> /\ npduCh = <<>>
    /\ g1pc = "idle" /\ g1Msg = 0 /\ g1Targets = <<>>
    /\ g2pc = "idle" /\ g2Msg = 0 /\ g2Targets = <<>>
    /\ sentBVLC = [h \in BVLCHandlers |-> <<>>]
    /\ sentNPDU = [h \in NPDUHandlers |-> <<>>]
    /\ sentAPDU = [h \in APDUHandlers |-> <<>>]
    /\ rtask = [t \in RegTasks |-> [pc |-> "idle"]]

Init == InitDispatch /\ codecIn = NoCall /\ codecOut = NoResult

(***************************************************************************)
(* What the dispatch path decodes from a datagram.                         *)
(***************************************************************************)
BVLCOf == [d \in Datagrams |-> NewBVLCMessageFromBytes(d)]
NPDUOf == [d \in Datagrams |->
             IF BVLCOf[d].res = "ok" THEN getNPDUMessageFromBVLCMessage(BVLCOf[d])
             ELSE [res |-> "no-bvlc"]]

\* a type assertion that every decoded APDU passes
IsAnyMessage(apduMsg) == apduMsg.res = "ok"

\* apduMsg.(*apdu.UnconfirmedMessage)
IsUnconfirmed(apduMsg) == apduMsg.res = "ok" /\ ~apduMsg.confirmed

\* a socket that hands out the newest datagram first
ReadNewestFromUDP(sock) == sock[Len(sock)]

\* the socket hands out the datagrams in the order they arrived
ReadFromUDP(sock) == Head(sock)

\* a task is between mux.Lock() and the deferred mux.Unlock() on a registry
WriteLocked(reg) ==
    \E t \in RegTasks : rtask[t].pc = "locked" /\ rtask[t].call.reg = reg

\* the runtime has ended the process: concurrent map iteration and map write
Fatal == \E t \in RegTasks : rtask[t].pc = "fatal"

\* RouteMessage is between n.bvlcMux.RLock() and the deferred RUnlock()
ReadLocked(reg) == reg = "bvlc" /\ lpc = "routing"

(***************************************************************************)
(* Registration (MessageNexus.Register*Handler).  The write lock of the    *)
(* BVLC registry waits for RouteMessage's read lock.                       *)
(***************************************************************************)
RegisterBVLCHandler(newFilter, handler) ==
    /\ lpc # "routing"
    /\ bvlcRegistry' = registerGeneric(newFilter, handler, bvlcRegistry)
    /\ UNCHANGED <<npduRegistry, apduRegistry, taskVars,
                   connVars, nexusVars, sentVars, codecVars>>

RegisterNPDUHandler(newFilter, handler) ==
    /\ npduRegistry' = registerGeneric(newFilter, handler, npduRegistry)
    /\ UNCHANGED <<bvlcRegistry, apduRegistry, taskVars,
                   connVars, nexusVars, sentVars, codecVars>>

RegisterAPDUHandler(newFilter, handler) ==
    /\ apduRegistry' = registerGeneric(newFilter, handler, apduRegistry)
    /\ UNCHANGED <<bvlcRegistry, npduRegistry, taskVars,
                   connVars, nexusVars, sentVars, codecVars>>

(***************************************************************************)
(* The connection (part_003).                                              *)
(***************************************************************************)
\* a datagram reaches the socket
Arrive(d) ==
    /\ cpc # "new"
    /\ Len(arrived) < MaxDatagrams
    /\ arrived' = Append(arrived, d)
    /\ socket' = Append(socket, Len(arrived) + 1)
    /\ UNCHANGED <<registryVars, taskVars, cpc, dataChannel, lpc, loopMsg, routeTargets,
                   nexusVars, sentVars, codecVars>>

\* connection.Start: the listener and the loop are started
ConnStart ==
    /\ cpc = "new"
    /\ ~Fatal
    /\ cpc' = "running"
    /\ lpc' = "select"
    /\ UNCHANGED <<registryVars, taskVars, arrived, socket, dataChannel, loopMsg,
                   routeTargets, nexusVars, sentVars, codecVars>>

\* startListener: ReadFromUDP returns a datagram and the listener sends it
\* on the data channel (the listener never stops)
ListenerStep ==
    /\ cpc # "new"
    /\ ~Fatal
    /\ socket # <<>>
    /\ Len(dataChannel) < DataChannelCap
    /\ dataChannel' = Append(dataChannel, ReadFromUDP(socket))
    /\ socket' = SelectSeq(socket, LAMBDA i : i # ReadFromUDP(socket))
    /\ UNCHANGED <<registryVars, taskVars, cpc, arrived, lpc, loopMsg, routeTargets,
                   nexusVars, sentVars, codecVars>>

\* loopForever: case incoming := <-incomingCh.  A datagram that fails to
\* decode makes the loop return; a decoded one enters RouteMessage, which
\* takes the read lock and ranges over the registry in some order.
LoopRecv ==
    /\ lpc = "select"
    /\ dataChannel # <<>>
    /\ ~WriteLocked("bvlc")
    /\ dataChannel' = Tail(dataChannel)
    /\ LET msg == BVLCOf[arrived[Head(dataChannel)]] IN
       IF msg.res # "ok"
       THEN /\ lpc' = "exited"
            /\ UNCHANGED <<loopMsg, routeTargets>>
       ELSE /\ lpc' = "routing"
            /\ loopMsg' = Head(dataChannel)
            /\ \E keys \in KeyOrders({f \in DOMAIN bvlcRegistry : Matches(f, msg.Function)}) :
                  routeTargets' = HandlersInOrder(keys, bvlcRegistry)
    /\ UNCHANGED <<registryVars, taskVars, cpc, arrived, socket, nexusVars,
                   sentVars, codecVars>>

\* RouteMessage: handler.GetBVLCChannel() <- message
RouteSend ==
    /\ lpc = "routing"
    /\ routeTargets # <<>>
    /\ IF Head(routeTargets) = DefaultHandler
       THEN /\ Len(bvlcCh) < DefaultBVLCChannelCap
            /\ bvlcCh' = Append(bvlcCh, loopMsg)
       ELSE UNCHANGED bvlcCh
    /\ sentBVLC' = [sentBVLC EXCEPT ![Head(routeTargets)] = Append(@, loopMsg)]
    /\ routeTargets' = Tail(routeTargets)
    /\ UNCHANGED <<registryVars, taskVars, cpc, arrived, socket, dataChannel, lpc, loopMsg,
                   npc, npduCh, g1pc, g1Msg, g1Targets, g2pc, g2Msg, g2Targets,
                   sentNPDU, sentAPDU, codecVars>>

\* RouteMessage returns (the read lock is released) and the loop selects again
RouteReturn ==
    /\ lpc = "routing"
    /\ routeTargets = <<>>
    /\ lpc' = "select"
    /\ loopMsg' = 0
    /\ UNCHANGED <<registryVars, taskVars, cpc, arrived, socket, dataChannel, routeTargets,
                   nexusVars, sentVars, codecVars>>

\* loopForever: case <-doneCh
LoopDone ==
    /\ lpc = "select"
    /\ cpc = "stopping"
    /\ lpc' = "exited"
    /\ UNCHANGED <<registryVars, taskVars, cpc, arrived, socket, dataChannel, loopMsg,
                   routeTargets, nexusVars, sentVars, codecVars>>

\* connection.Stop: c.stopFunction()
ConnStopCall ==
    /\ cpc = "running"
    /\ cpc' = "stopping"
    /\ UNCHANGED <<registryVars, taskVars, arrived, socket, dataChannel, lpc, loopMsg,
                   routeTargets, nexusVars, sentVars, codecVars>>

\* connection.Stop: c.wg.Wait() returns once loopForever has returned
ConnStopReturn ==
    /\ cpc = "stopping"
    /\ lpc = "exited"
    /\ cpc' = "stopped"
    /\ UNCHANGED <<registryVars, taskVars, arrived, socket, dataChannel, lpc, loopMsg,
                   routeTargets, nexusVars, sentVars, codecVars>>

(***************************************************************************)
(* The nexus and its default handler (part_004).                           *)
(***************************************************************************)
\* MessageNexus.Start: the two goroutines of the default handler
NexusStart ==
    /\ npc = "new"
    /\ ~Fatal
    /\ npc' = "running"
    /\ g1pc' = "select"
    /\ g2pc' = "select"
    /\ UNCHANGED <<registryVars, taskVars, connVars, bvlcCh, npduCh, g1Msg, g1Targets,
                   g2Msg, g2Targets, sentVars, codecVars>>

\* first goroutine, case bvlcMsg := <-b.bvlcCh: a message that yields no
\* NPDU is dropped, another is sent to every handler of the NPDU registry
G1Recv ==
    /\ g1pc = "select"
    /\ bvlcCh # <<>>
    /\ bvlcCh' = Tail(bvlcCh)
    /\ IF NPDUOf[arrived[Head(bvlcCh)]].res # "ok"
       THEN UNCHANGED <<g1pc, g1Msg, g1Targets>>
       ELSE /\ g1pc' = "sending"
            /\ g1Msg' = Head(bvlcCh)
            /\ \E keys \in KeyOrders(DOMAIN npduRegistry) :
                  g1Targets' = HandlersInOrder(keys, npduRegistry)
    /\ UNCHANGED <<registryVars, taskVars, connVars, npc, npduCh, g2pc, g2Msg, g2Targets,
                   sentVars, codecVars>>

\* first goroutine: h.GetNPDUChannel() <- npduMsg, then back to the select
G1Send ==
    /\ g1pc = "sending"
    /\ IF g1Targets = <<>>
       THEN /\ g1pc' = "select"
            /\ g1Msg' = 0
            /\ UNCHANGED <<npduCh, sentNPDU, g1Targets>>
       ELSE /\ IF Head(g1Targets) = DefaultHandler
               THEN /\ Len(npduCh) < DefaultNPDUChannelCap
                    /\ npduCh' = Append(npduCh, g1Msg)
               ELSE UNCHANGED npduCh
            /\ sentNPDU' = [sentNPDU EXCEPT ![Head(g1Targets)] = Append(@, g1Msg)]
            /\ g1Targets' = Tail(g1Targets)
            /\ UNCHANGED <<g1pc, g1Msg>>
    /\ UNCHANGED <<registryVars, taskVars, connVars, npc, bvlcCh, g2pc, g2Msg, g2Targets,
                   sentBVLC, sentAPDU, codecVars>>

\* first goroutine, case <-done
G1Done ==
    /\ g1pc = "select"
    /\ npc = "stopping"
    /\ g1pc' = "exited"
    /\ UNCHANGED <<registryVars, taskVars, connVars, npc, bvlcCh, npduCh, g1Msg, g1Targets,
                   g2pc, g2Msg, g2Targets, sentVars, codecVars>>

\* second goroutine, case npduMsg := <-b.npduCh
G2Recv ==
    /\ g2pc = "select"
    /\ npduCh # <<>>
    /\ npduCh' = Tail(npduCh)
    /\ LET apduMsg == NPDUOf[arrived[Head(npduCh)]].APDU IN
       IF ~IsUnconfirmed(apduMsg)
       THEN UNCHANGED <<g2pc, g2Msg, g2Targets>>
       ELSE /\ g2pc' = "sending"
            /\ g2Msg' = Head(npduCh)
            /\ \E keys \in KeyOrders({f \in DOMAIN apduRegistry :
                                        Matches(f, apduMsg.ServiceID)}) :
                  g2Targets' = HandlersInOrder(keys, apduRegistry)
    /\ UNCHANGED <<registryVars, taskVars, connVars, npc, bvlcCh, g1pc, g1Msg, g1Targets,
                   sentVars, codecVars>>

\* second goroutine: h.GetAPDUChannel() <- &apduMsg, then back to the select
G2Send ==
    /\ g2pc = "sending"
    /\ IF g2Targets = <<>>
       THEN /\ g2pc' = "select"
            /\ g2Msg' = 0
            /\ UNCHANGED <<sentAPDU, g2Targets>>
       ELSE /\ sentAPDU' = [sentAPDU EXCEPT ![Head(g2Targets)] = Append(@, g2Msg)]
            /\ g2Targets' = Tail(g2Targets)
            /\ UNCHANGED <<g2pc, g2Msg>>
    /\ UNCHANGED <<registryVars, taskVars, connVars, npc, bvlcCh, npduCh, g1pc, g1Msg, g1Targets,
                   sentBVLC, sentNPDU, codecVars>>

\* second goroutine, case <-done
G2Done ==
    /\ g2pc = "select"
    /\ npc = "stopping"
    /\ g2pc' = "exited"
    /\ UNCHANGED <<registryVars, taskVars, connVars, npc, bvlcCh, npduCh, g1pc, g1Msg, g1Targets,
                   g2Msg, g2Targets, sentVars, codecVars>>

\* MessageNexus.Stop: n.stopFunc()
NexusStopCall ==
    /\ npc = "running"
    /\ npc' = "stopping"
    /\ UNCHANGED <<registryVars, taskVars, connVars, bvlcCh, npduCh, g1pc, g1Msg, g1Targets,
                   g2pc, g2Msg, g2Targets, sentVars, codecVars>>

\* MessageNexus.Stop: n.wg.Wait() returns once both goroutines have returned
NexusStopReturn ==
    /\ npc = "stopping"
    /\ g1pc = "exited"
    /\ g2pc = "exited"
    /\ npc' = "stopped"
    /\ UNCHANGED <<registryVars, taskVars, connVars, bvlcCh, npduCh, g1pc, g1Msg, g1Targets,
                   g2pc, g2Msg, g2Targets, sentVars, codecVars>>

Next ==
    \/ \E r \in BVLCRegistrations : RegisterBVLCHandler(r[1], r[2])
    \/ \E r \in NPDURegistrations : RegisterNPDUHandler(r[1], r[2])
    \/ \E r \in APDURegistrations : RegisterAPDUHandler(r[1], r[2])
    \/ \E d \in Datagrams : Arrive(d)
    \/ ConnStart \/ ListenerStep
    \/ LoopRecv \/ RouteSend \/ RouteReturn \/ LoopDone
    \/ ConnStopCall \/ ConnStopReturn
    \/ NexusStart
    \/ G1Recv \/ G1Send \/ G1Done
    \/ G2Recv \/ G2Send \/ G2Done
    \/ NexusStopCall \/ NexusStopReturn

Spec == Init /\ [][Next]_vars

(***************************************************************************)
(* The codecs, called on their own (internal/apdu/context_specific_test.go *)
(* TestObjectIDCoding): a call is drawn at the start and then made.        *)
(***************************************************************************)
ObjectIDTagNumbers == {0, 2, 13, 14, 15, 254, 255}
ObjectTypes == {0, 1, 2, 3, 512, 1022, 1023}
ObjectInstances == {0, 50, 4194303}

ObjectIDCalls ==
    [op : {"objectid"}, tagNumber : ObjectIDTagNumbers,
     objectType : ObjectTypes, objectInstance : ObjectInstances]

\* calls of NewContextSpecificObjectID around the limits of the two fields
RangeObjectTypes == {0, 1023, 1024, 65535, 65536, 1048576}
RangeObjectInstances == {0, 4194303, 4194304, 8388607, 8388608}

NewObjectIDCalls ==
    [op : {"newobjectid"}, tagNumber : {2},
     objectType : RangeObjectTypes, objectInstance : RangeObjectInstances]

\* 64-bit values, written as their 8 bytes: the limits of every byte size
\* and values with all bytes distinct
UintValues ==
    {<<0, 0, 0, 0, 0, 0, 0, 0>>, <<0, 0, 0, 0, 0, 0, 0, 1>>,
     <<0, 0, 0, 0, 0, 0, 0, 255>>, <<0, 0, 0, 0, 0, 0, 1, 0>>,
     <<0, 0, 0, 0, 0, 0, 255, 255>>, <<0, 0, 0, 0, 0, 1, 0, 0>>,
     <<0, 0, 0, 0, 0, 255, 255, 255>>, <<0, 0, 0, 0, 1, 0, 0, 0>>,
     <<0, 0, 0, 0, 255, 255, 255, 255>>, <<0, 0, 0, 1, 0, 0, 0, 0>>,
     <<0, 0, 0, 255, 255, 255, 255, 255>>, <<0, 0, 1, 0, 0, 0, 0, 0>>,
     <<0, 0, 255, 255, 255, 255, 255, 255>>, <<0, 1, 0, 0, 0, 0, 0, 0>>,
     <<0, 255, 255, 255, 255, 255, 255, 255>>, <<1, 0, 0, 0, 0, 0, 0, 0>>,
     <<255, 255, 255, 255, 255, 255, 255, 255>>, <<1, 2, 3, 4, 5, 6, 7, 8>>,
     <<0, 0, 0, 128, 0, 3, 231, 9>>, <<0, 0, 0, 0, 0, 0, 3, 231>>}

UintCalls == [op : {"uint"}, val : UintValues]

\* every tag number of a uint8
TagNumberCalls == [op : {"tagnumber"}, tagNumber : 0..255]

\* payload lengths, written as the 8 bytes of a uint: the limits of the
\* width classes, the lengths of the tests, and lengths above 2^32-1
LengthValues ==
    {<<0, 0, 0, 0, 0, 0, 0, 0>>, <<0, 0, 0, 0, 0, 0, 0, 1>>,
     <<0, 0, 0, 0, 0, 0, 0, 2>>, <<0, 0, 0, 0, 0, 0, 0, 3>>,
     <<0, 0, 0, 0, 0, 0, 0, 4>>, <<0, 0, 0, 0, 0, 0, 0, 5>>,
     <<0, 0, 0, 0, 0, 0, 0, 201>>, <<0, 0, 0, 0, 0, 0, 0, 253>>,
     <<0, 0, 0, 0, 0, 0, 0, 254>>, <<0, 0, 0, 0, 0, 0, 0, 255>>,
     <<0, 0, 0, 0, 0, 0, 239, 255>>, <<0, 0, 0, 0, 0, 0, 255, 255>>,
     <<0, 0, 0, 0, 0, 1, 0, 0>>, <<0, 0, 0, 0, 0, 1, 255, 255>>,
     <<0, 0, 0, 0, 31, 171, 205, 239>>, <<0, 0, 0, 0, 255, 255, 255, 255>>,
     <<0, 0, 0, 1, 0, 0, 0, 0>>, <<0, 0, 0, 171, 205, 239, 171, 205>>,
     <<255, 255, 255, 255, 255, 255, 255, 255>>}

\* the control byte before the call: bits 7-3 carry the tag number and class
LengthControls == {0, 8, 240, 248}

LengthCalls == [op : {"length"}, len : LengthValues, control : LengthControls]

\* every value of the Control struct with a priority of two bits
Controls ==
    [IsNDSUNetworkLayerMessage : BOOLEAN, DestinationAddressPresent : BOOLEAN,
     SourceAddressPresent : BOOLEAN, IsBACNetConfirmedRequestPDUPresent : BOOLEAN,
     Priority : 0..3]

ControlCalls == [op : {"control"}, ctrl : Controls]

\* the controls of the NPDU messages: every combination of the four flags
NPDUControls ==
    [IsNDSUNetworkLayerMessage : BOOLEAN, DestinationAddressPresent : BOOLEAN,
     SourceAddressPresent : BOOLEAN, IsBACNetConfirmedRequestPDUPresent : BOOLEAN,
     Priority : {0, 1}]

\* the addresses of TestAddress, and two whose Length is not len(Addr)
TestAddresses ==
    {[Network |-> 34, Length |-> 0, Addr |-> <<>>],
     [Network |-> 255, Length |-> 1, Addr |-> <<3>>],
     [Network |-> 265, Length |-> 8, Addr |-> <<8, 7, 6, 5, 4, 3, 2, 1>>]}

FlagAddresses ==
    {[Network |-> 1, Length |-> 1, Addr |-> <<3, 4>>],
     [Network |-> 1, Length |-> 2, Addr |-> <<3>>]}

\* a *Address: nil or a pointer to an Address
OptionalAddresses == {<<>>} \cup {<<a>> : a \in TestAddresses \cup FlagAddresses}

\* nil, the Who-Is of TestNPDUCoding, and a confirmed request
APDUMessages ==
    {[res |-> "nil"], NewWhoisMessage(0, 999),
     [res |-> "ok", pdu |-> PDUTypeConfirmedServiceRequest, confirmed |-> TRUE,
      ServiceID |-> 12]}

\* NewMessage: the protocol version is the default one, the hop count is set
NPDUMessages ==
    [ProtocolVersion : {DefaultProtocolVersion}, Control : NPDUControls,
     Destination : OptionalAddresses, Source : OptionalAddresses, HopCount : {DefaultHopCount},
     MessageType : {NetworkLayerWhoIsMessage, NetworkLayerIAmMessage, 128},
     VendorID : {<<>>, <<5>>}, APDU : APDUMessages]

NPDUCalls == [op : {"npdu"}, m : NPDUMessages]

\* the functions verifyFunction accepts
BVLCFunctions ==
    {BVLCFunctionResult, BVLCFunctioncWriteBroadcastDistributionTable,
     BVLCFunctioncBroadcastDistributionTable, BVLCFunctioncBroadcastDistributionTableAck,
     BVLCFunctioncForwardedNPDU, BVLCFunctioncUnicast, BVLCFunctioncBroadcast}

\* the smallest payload whose frame length no longer fits two bytes
LargeData == [i \in 1..(65536 - BVLCHeaderLength) |-> 0]

\* no payload, short payloads, the encoded NPDU of TestBVLCCoding, a large one
BVLCData ==
    {<<>>, <<0>>, <<0, 0>>, <<255, 1, 2>>, <<1, 0, 16, 8, 9, 0, 26, 3, 231>>, LargeData}

\* NewBVLCMessage(function, data)
BVLCMessages == [Function : BVLCFunctions, Data : BVLCData]

BVLCCalls == [op : {"bvlc"}, m : BVLCMessages]

\* received buffers: a type byte, a function byte, a declared length and
\* what follows the header, and the buffers that end inside the header
BVLCBodies == {<<>>, <<0>>, <<7>>, <<1, 2>>, <<1, 0>>, <<1, 2, 0>>, <<1, 2, 9>>}

BVLCBuffers ==
    {<<t, f, 0, l>> \o body :
        t \in {BVLCType, 128}, f \in {0, 5, 10, 11, 255}, l \in {0, 3, 4, 5, 6, 7},
        body \in BVLCBodies}
    \cup {<<>>, <<128>>, <<BVLCType>>, <<BVLCType, 5>>, <<BVLCType, 11>>,
          <<BVLCType, 11, 0>>}

BVLCDecodeCalls == [op : {"bvlcdecode"}, buf : BVLCBuffers]

\* received APDUs: a confirmed request, a segmented one and a Who-Is, and
\* every prefix of them
APDUFrames ==
    {<<0, 5, 1, 12, 9, 9, 9>>, <<4, 5, 1, 3, 4, 12, 9>>, <<6, 5, 1, 3, 4, 12, 9>>,
     <<2, 0, 7, 15, 0, 0, 0>>, <<16, 8, 9, 0, 26, 3, 231>>}

APDUBuffers == {SubSeq(frame, 1, n) : frame \in APDUFrames, n \in 0..7}

APDUDecodeCalls == [op : {"apdudecode"}, data : APDUBuffers]

\* Who-Is requests: every priority, limits of every byte size
WhoIsCalls == [op : {"whois"}, priority : 0..3, low : UintValues, high : UintValues]

CodecCalls ==
    UNION {ObjectIDCalls, NewObjectIDCalls, UintCalls, TagNumberCalls, LengthCalls,
           ControlCalls, NPDUCalls, BVLCCalls, BVLCDecodeCalls, WhoIsCalls,
           APDUDecodeCalls}

InitCodec ==
    /\ InitDispatch
    /\ codecIn \in CodecCalls
    /\ codecOut = NoResult

\* NewContextSpecificObjectID, EncodeAsTagData, then
\* NewContextSpecificObjectIDFromBytes on the bytes
ObjectIDRoundTrip ==
    /\ codecIn.op = "objectid"
    /\ codecOut = NoResult
    /\ LET p == NewContextSpecificObjectID(codecIn.tagNumber, codecIn.objectType,
                                           codecIn.objectInstance)
           enc == IF p.res = "ok" THEN ObjectIDEncodeAsTagData(p)
                  ELSE [res |-> "none", bytes |-> <<>>]
           dec == IF enc.res = "ok" THEN NewContextSpecificObjectIDFromBytes(enc.bytes)
                  ELSE [res |-> "none"]
       IN  codecOut' = [res |-> "done", created |-> p.res, encoded |-> enc, decoded |-> dec]
    /\ UNCHANGED <<registryVars, taskVars, connVars, nexusVars, sentVars, codecIn>>

\* NewContextSpecificObjectID on its own
NewObjectIDCall ==
    /\ codecIn.op = "newobjectid"
    /\ codecOut = NoResult
    /\ codecOut' = [res |-> "done",
                    created |-> NewContextSpecificObjectID(codecIn.tagNumber,
                                    codecIn.objectType, codecIn.objectInstance).res]
    /\ UNCHANGED <<registryVars, taskVars, connVars, nexusVars, sentVars, codecIn>>

\* GetUnsignedIntByteSize, EncodeUint with that size, DecodeUint of the bytes
UintRoundTrip ==
    /\ codecIn.op = "uint"
    /\ codecOut = NoResult
    /\ LET val == BytesToBits(codecIn.val)
           size == GetUnsignedIntByteSize(val)
           enc == EncodeUintBits(val, size)
       IN  codecOut' = [res |-> "done", size |-> size, encoded |-> enc,
                        decoded |-> DecodeUintBits(enc)]
    /\ UNCHANGED <<registryVars, taskVars, connVars, nexusVars, sentVars, codecIn>>

\* encodeTagNumber on a zero control byte, then decodeTagNumber
TagNumberRoundTrip ==
    /\ codecIn.op = "tagnumber"
    /\ codecOut = NoResult
    /\ LET enc == encodeTagNumber(0, codecIn.tagNumber) IN
       codecOut' = [res |-> "done", control |-> enc.control, bytes |-> enc.bytes,
                    decoded |-> decodeTagNumber(enc.control, enc.bytes)]
    /\ UNCHANGED <<registryVars, taskVars, connVars, nexusVars, sentVars, codecIn>>

\* encodeLength, then decodeLength on the control byte and the length
\* bytes, and on the length bytes without the last one
LengthRoundTrip ==
    /\ codecIn.op = "length"
    /\ codecOut = NoResult
    /\ LET enc == encodeLengthBits(codecIn.control, BytesToBits(codecIn.len))
           dec == IF enc.res = "ok" THEN decodeLength(enc.control, enc.bytes)
                  ELSE [res |-> "none"]
           cut == IF enc.res = "ok" /\ enc.bytes # <<>>
                  THEN decodeLength(enc.control, SubSeq(enc.bytes, 1, Len(enc.bytes) - 1))
                  ELSE [res |-> "none"]
       IN  codecOut' = [res |-> "done", encoded |-> enc, decoded |-> dec, truncated |-> cut]
    /\ UNCHANGED <<registryVars, taskVars, connVars, nexusVars, sentVars, codecIn>>

\* encodeControl, then decodeControl
ControlRoundTrip ==
    /\ codecIn.op = "control"
    /\ codecOut = NoResult
    /\ codecOut' = [res |-> "done", encoded |-> encodeControl(codecIn.ctrl),
                    decoded |-> decodeControl(encodeControl(codecIn.ctrl))]
    /\ UNCHANGED <<registryVars, taskVars, connVars, nexusVars, sentVars, codecIn>>

\* Message.Encode, then NewMessageFromBytes on the bytes it returned
NPDURoundTrip ==
    /\ codecIn.op = "npdu"
    /\ codecOut = NoResult
    /\ codecOut' = [res |-> "done", encoded |-> npduEncode(codecIn.m),
                    decoded |-> IF npduEncode(codecIn.m).res = "ok"
                                THEN npduNewMessageFromBytes(npduEncode(codecIn.m).bytes)
                                ELSE NoResult]
    /\ UNCHANGED <<registryVars, taskVars, connVars, nexusVars, sentVars, codecIn>>

\* Encode, then NewBVLCMessageFromBytes on the bytes it returned
BVLCRoundTrip ==
    /\ codecIn.op = "bvlc"
    /\ codecOut = NoResult
    /\ codecOut' = [res |-> "done", encoded |-> BVLCMessageEncode(codecIn.m),
                    decoded |-> NewBVLCMessageFromBytes(BVLCMessageEncode(codecIn.m))]
    /\ UNCHANGED <<registryVars, taskVars, connVars, nexusVars, sentVars, codecIn>>

\* NewBVLCMessageFromBytes on a received buffer
BVLCDecode ==
    /\ codecIn.op = "bvlcdecode"
    /\ codecOut = NoResult
    /\ codecOut' = [res |-> "done", decoded |-> NewBVLCMessageFromBytes(codecIn.buf)]
    /\ UNCHANGED <<registryVars, taskVars, connVars, nexusVars, sentVars, codecIn>>

\* NewWhoisMessage, then SendUnconfirmedMessage
SendWhoIs ==
    /\ codecIn.op = "whois"
    /\ codecOut = NoResult
    /\ codecOut' = [res |-> "done",
                    sent |-> SendUnconfirmedMessage(
                                 codecIn.priority, NetworkLayerWhoIsMessage,
                                 NewWhoisMessageBits(BytesToBits(codecIn.low),
                                                     BytesToBits(codecIn.high)))]
    /\ UNCHANGED <<registryVars, taskVars, connVars, nexusVars, sentVars, codecIn>>

\* apdu.NewMessageFromBytes on a received APDU
APDUDecode ==
    /\ codecIn.op = "apdudecode"
    /\ codecOut = NoResult
    /\ codecOut' = [res |-> "done", decoded |-> apduNewMessageFromBytes(codecIn.data)]
    /\ UNCHANGED <<registryVars, taskVars, connVars, nexusVars, sentVars, codecIn>>

NextCodec ==
    \/ ObjectIDRoundTrip
    \/ NewObjectIDCall
    \/ UintRoundTrip
    \/ TagNumberRoundTrip
    \/ LengthRoundTrip
    \/ ControlRoundTrip
    \/ NPDURoundTrip
    \/ BVLCRoundTrip
    \/ BVLCDecode
    \/ SendWhoIs
    \/ APDUDecode

SpecCodec == InitCodec /\ [][NextCodec]_vars

\* The goroutines are scheduled whenever they can take a step, and the
\* handlers of the application keep receiving from their channels.
FairSpec ==
    /\ Spec
    /\ WF_vars(ListenerStep)
    /\ WF_vars(LoopRecv \/ RouteSend \/ RouteReturn \/ LoopDone)
    /\ WF_vars(G1Recv \/ G1Send \/ G1Done)
    /\ WF_vars(G2Recv \/ G2Send \/ G2Done)
    /\ WF_vars(ConnStopReturn)
    /\ WF_vars(NexusStopReturn)

(***************************************************************************)
(* Registration by concurrent tasks while datagrams are dispatched         *)
(* (part_004: registerGeneric, RouteMessage, BVLCNPDURouterHandler.Start). *)
(* registerGeneric reads the list under the read lock, releases it, and    *)
(* stores under the write lock.  RouteMessage holds the read lock of the   *)
(* BVLC registry until it returns; the two goroutines of the default       *)
(* handler range over the NPDU and APDU maps with no lock.                 *)
(***************************************************************************)
\* the calls the tasks make
ConcCalls ==
    {[reg |-> "bvlc", filter |-> BVLCFunctioncUnicast, handler |-> "b1"],
     [reg |-> "bvlc", filter |-> BVLCFunctioncUnicast, handler |-> DefaultHandler],
     [reg |-> "bvlc", filter |-> BVLCFunctioncBroadcastDistributionTable, handler |-> "b1"],
     [reg |-> "npdu", filter |-> NetworkLayerIAmMessage, handler |-> "n1"],
     [reg |-> "apdu", filter |-> ServiceUnconfirmedWhoIs, handler |-> "a1"]}

\* the datagrams that arrive while the tasks register
ConcDatagrams == {DgWhoIs}

RegistryOf(reg) ==
    IF reg = "bvlc" THEN bvlcRegistry
    ELSE IF reg = "npdu" THEN npduRegistry
    ELSE apduRegistry

\* a goroutine of the default handler is inside its range over the map
RangingOver(reg) ==
    \/ reg = "npdu" /\ g1pc = "sending"
    \/ reg = "apdu" /\ g2pc = "sending"

\* lines 194-202: RLock, look the filter up, RUnlock
RegSnapshot(t, c) ==
    /\ rtask[t].pc = "idle"
    /\ ~Fatal
    /\ ~WriteLocked(c.reg)
    /\ rtask' = [rtask EXCEPT ![t] =
                    [pc |-> "snapshotted", call |-> c,
                     writeHandlers |-> registerSnapshot(c.filter, RegistryOf(c.reg))]]
    /\ UNCHANGED <<registryVars, connVars, nexusVars, sentVars, codecVars>>

\* line 204: mux.Lock() waits for the readers and the writers
RegLock(t) ==
    /\ rtask[t].pc = "snapshotted"
    /\ ~WriteLocked(rtask[t].call.reg)
    /\ ~ReadLocked(rtask[t].call.reg)
    /\ rtask' = [rtask EXCEPT ![t].pc = "locked"]
    /\ UNCHANGED <<registryVars, connVars, nexusVars, sentVars, codecVars>>

\* the three registries after the store of task t
StoredRegistries(t) ==
    LET c == rtask[t].call
        newMap == registerStore(c.filter, c.handler, rtask[t].writeHandlers,
                                RegistryOf(c.reg))
    IN  <<IF c.reg = "bvlc" THEN newMap ELSE bvlcRegistry,
          IF c.reg = "npdu" THEN newMap ELSE npduRegistry,
          IF c.reg = "apdu" THEN newMap ELSE apduRegistry>>

\* lines 206-213 and the deferred Unlock
RegStore(t) ==
    /\ rtask[t].pc = "locked"
    /\ bvlcRegistry' = StoredRegistries(t)[1]
    /\ npduRegistry' = StoredRegistries(t)[2]
    /\ apduRegistry' = StoredRegistries(t)[3]
    /\ rtask' = [rtask EXCEPT ![t].pc = "returned"]
    /\ UNCHANGED <<connVars, nexusVars, sentVars, codecVars>>

\* the store happens while a goroutine ranges over the same map, and the
\* runtime detects it: the process ends, and every goroutine with it
RegStoreFatal(t) ==
    /\ rtask[t].pc = "locked"
    /\ RangingOver(rtask[t].call.reg)
    /\ rtask' = [u \in RegTasks |-> [pc |-> "fatal"]]
    /\ lpc' = "exited"
    /\ g1pc' = "exited"
    /\ g2pc' = "exited"
    /\ UNCHANGED <<registryVars, cpc, arrived, socket, dataChannel, loopMsg,
                   routeTargets, npc, bvlcCh, npduCh, g1Msg, g1Targets, g2Msg,
                   g2Targets, sentVars, codecVars>>

\* the store creates a key while a goroutine ranges over the same map, and
\* the range produces the new entry as well
RegStoreSeen(t) ==
    /\ rtask[t].pc = "locked"
    /\ RangingOver(rtask[t].call.reg)
    /\ rtask[t].call.filter \notin DOMAIN RegistryOf(rtask[t].call.reg)
    /\ bvlcRegistry' = StoredRegistries(t)[1]
    /\ npduRegistry' = StoredRegistries(t)[2]
    /\ apduRegistry' = StoredRegistries(t)[3]
    /\ rtask' = [rtask EXCEPT ![t].pc = "returned"]
    /\ IF rtask[t].call.reg = "npdu"
       THEN /\ g1Targets' = Append(g1Targets, rtask[t].call.handler)
            /\ UNCHANGED g2Targets
       ELSE /\ g2Targets' = Append(g2Targets, rtask[t].call.handler)
            /\ UNCHANGED g1Targets
    /\ UNCHANGED <<connVars, npc, bvlcCh, npduCh, g1pc, g1Msg, g2pc, g2Msg,
                   sentVars, codecVars>>

NextConc ==
    \/ \E t \in RegTasks : \E c \in ConcCalls : RegSnapshot(t, c)
    \/ \E t \in RegTasks : RegLock(t)
    \/ \E t \in RegTasks : RegStore(t)
    \/ \E t \in RegTasks : RegStoreFatal(t)
    \/ \E t \in RegTasks : RegStoreSeen(t)
    \/ \E d \in ConcDatagrams : Arrive(d)
    \/ ConnStart \/ ListenerStep
    \/ LoopRecv \/ RouteSend \/ RouteReturn
    \/ NexusStart
    \/ G1Recv \/ G1Send
    \/ G2Recv \/ G2Send

SpecConc == Init /\ [][NextConc]_vars

(***************************************************************************)
(* Properties.                                                             *)
(***************************************************************************)
Registries == <<bvlcRegistry, npduRegistry, apduRegistry>>
RegistrationsOf == <<BVLCRegistrations \cup {<<11, DefaultHandler>>},
                     NPDURegistrations \cup {<<1, DefaultHandler>>},
                     APDURegistrations>>

\* how often x occurs in the sequence q
Count(q, x) == Cardinality({i \in 1..Len(q) : q[i] = x})

\* the places of a registry where handler h is stored under a filter that
\* has a bit in common with x
MatchingRegistrations(handlerMap, h, x) ==
    {<<f, i>> \in (DOMAIN handlerMap) \X (1..3) :
        /\ i <= Len(handlerMap[f])
        /\ handlerMap[f][i] = h
        /\ BitAnd(f, x) # 0}

\* C1: no handler occurs twice in the list stored under a filter; registering
\* a pair that is already registered leaves the registry as it is; registering
\* under a filter that is already a key adds no key.
C1_RegistrationIdempotent ==
    \A k \in 1..3 :
        LET reg == Registries[k] IN
        /\ \A f \in DOMAIN reg : \A i, j \in 1..Len(reg[f]) :
              reg[f][i] = reg[f][j] => i = j
        /\ \A r \in RegistrationsOf[k] :
              /\ (r[1] \in DOMAIN reg /\ \E i \in 1..Len(reg[r[1]]) : reg[r[1]][i] = r[2])
                    => registerGeneric(r[1], r[2], reg) = reg
              /\ r[1] \in DOMAIN reg
                    => DOMAIN registerGeneric(r[1], r[2], reg) = DOMAIN reg

\* a handler was appended to an existing list and new keys were added
C1_Witness ==
    /\ npduRegistry[1] = <<DefaultHandler, "n1">>
    /\ DOMAIN bvlcRegistry = {0, 10, 11}
    /\ bvlcRegistry[10] = <<"b1">>

C3_ReceivesAllOfType ==
    (lpc = "routing" /\ routeTargets = <<>>) =>
        \A f \in DOMAIN bvlcRegistry : \A i \in 1..Len(bvlcRegistry[f]) :
            f = BVLCOf[arrived[loopMsg]].Function
               => Count(sentBVLC[bvlcRegistry[f][i]], loopMsg) > 0

\* C4: on every handler channel the messages are sent in the order in which
\* their datagrams arrived at the socket.
C4_ArrivalOrder ==
    \A q \in (({sentBVLC[h] : h \in BVLCHandlers}
               \cup {sentNPDU[h] : h \in NPDUHandlers})
               \cup {sentAPDU[h] : h \in APDUHandlers}) :
        \A i, j \in 1..Len(q) : i < j => q[i] <= q[j]

\* two datagrams have gone through all three levels
C4_Witness ==
    /\ sentAPDU["a1"] = <<1, 2>>
    /\ sentNPDU["n1"] = <<1, 2>>
    /\ sentBVLC["b1"] = <<1, 2>>

\* C5: once MessageNexus.Stop has returned no message is sent on a handler
\* channel.
C5_NoSendAfterStop ==
    [][npc = "stopped" => UNCHANGED <<sentBVLC, sentNPDU, sentAPDU>>]_vars

\* C6: a call of Stop, on the connection and on the nexus, returns.
C6_StopReturns ==
    /\ (cpc = "stopping") ~> (cpc = "stopped")
    /\ (npc = "stopping") ~> (npc = "stopped")

\* C7: the dispatch loop runs until the connection is stopped.
C7_LoopSurvivesMalformed ==
    lpc = "exited" => cpc \in {"stopping", "stopped"}

\* an APDU handler is stored under a filter that has a bit in common with x
APDUHandlerMatches(h, x) == MatchingRegistrations(apduRegistry, h, x) # {}

C9_NPDUFilterRule ==
    \A h \in NPDUHandlers : \A k \in 1..Len(sentNPDU[h]) :
        MatchingRegistrations(npduRegistry, h,
                              NPDUOf[arrived[sentNPDU[h][k]]].MessageType) # {}

\* C10: an object identifier made from a tag number, a 10-bit type and a
\* 22-bit instance is encoded with the 4-byte big-endian word
\* (type << 22) | instance as its payload, and decoding the bytes gives
\* back the tag number, the type and the instance.
C10_ObjectIDRoundTrip ==
    (codecIn.op = "objectid" /\ codecOut.res = "done") =>
        /\ codecOut.created = "ok"
        /\ codecOut.encoded.res = "ok"
        /\ LET bytes == codecOut.encoded.bytes IN
           SubSeq(bytes, Len(bytes) - 3, Len(bytes)) =
              <<codecIn.objectType \div 4,
                (codecIn.objectType % 4) * 64 + codecIn.objectInstance \div 65536,
                (codecIn.objectInstance \div 256) % 256,
                codecIn.objectInstance % 256>>
        /\ codecOut.decoded.res = "ok"
        /\ codecOut.decoded.TagNumber = codecIn.tagNumber
        /\ codecOut.decoded.objectType = codecIn.objectType
        /\ codecOut.decoded.objectInstance = codecIn.objectInstance

\* C11: NewContextSpecificObjectID fails with invalid-data exactly when the
\* object type is 2^10 or more or the object instance is 2^22 or more.
C11_ObjectIDRange ==
    (codecIn.op = "newobjectid" /\ codecOut.res = "done") =>
        (codecOut.created = "invalid-data"
            <=> (codecIn.objectType >= 1024 \/ codecIn.objectInstance >= 4194304))

\* the number of bytes of an 8-byte value that follow its leading zero bytes
SignificantBytes(bytes) ==
    IF \A i \in 1..8 : bytes[i] = 0 THEN 1
    ELSE 9 - (CHOOSE i \in 1..8 : bytes[i] # 0 /\ \A j \in 1..(i - 1) : bytes[j] = 0)

C13_TagNumberForms ==
    (codecIn.op = "tagnumber" /\ codecOut.res = "done") =>
        /\ codecIn.tagNumber < 15 =>
              /\ codecOut.control = codecIn.tagNumber * 16
              /\ codecOut.bytes = <<>>
        /\ codecIn.tagNumber >= 15 =>
              /\ codecOut.control \div 16 = 15
              /\ codecOut.bytes = <<codecIn.tagNumber>>
        /\ codecOut.decoded.res = "ok"
        /\ codecOut.decoded.tagNumber = codecIn.tagNumber

\* a length, given as its 8 bytes, is at most 2^32-1
FitsFourBytes(len) == \A i \in 1..4 : len[i] = 0

\* the length bytes the width classes prescribe for a length of at most 2^32-1
PrescribedLengthBytes(len) ==
    IF SignificantBytes(len) = 1 /\ len[8] <= 4 THEN <<>>
    ELSE IF SignificantBytes(len) = 1 /\ len[8] <= 253 THEN <<len[8]>>
    ELSE IF SignificantBytes(len) <= 2 THEN <<254, len[7], len[8]>>
    ELSE <<255, len[5], len[6], len[7], len[8]>>

\* C14: for a length L of at most 2^32-1 encodeLength sets bits 2-0 of the
\* control byte to L when L <= 4 and to 5 otherwise, leaves bits 7-3 as they
\* were, and returns the length bytes of the width class of L.
C14_LengthWidthClasses ==
    (codecIn.op = "length" /\ codecOut.res = "done" /\ FitsFourBytes(codecIn.len)) =>
        /\ codecOut.encoded.res = "ok"
        /\ codecOut.encoded.bytes = PrescribedLengthBytes(codecIn.len)
        /\ codecOut.encoded.control % 8 =
              (IF PrescribedLengthBytes(codecIn.len) = <<>> THEN codecIn.len[8] ELSE 5)
        /\ codecOut.encoded.control \div 8 = codecIn.control \div 8

\* C15: for a length above 2^32-1 encodeLength returns the value-too-large
\* error and no length bytes.
C15_LengthTooLarge ==
    (codecIn.op = "length" /\ codecOut.res = "done" /\ ~FitsFourBytes(codecIn.len)) =>
        /\ codecOut.encoded.res = "value-too-large"
        /\ codecOut.encoded.bytes = <<>>

\* C16: for a length L of at most 2^32-1 decodeLength, given the control byte
\* and the length bytes of encodeLength(L), returns L and leaves nothing of
\* the length bytes; given the length bytes without the last one it returns
\* insufficient-data.
C16_LengthRoundTrip ==
    (codecIn.op = "length" /\ codecOut.res = "done" /\ FitsFourBytes(codecIn.len)) =>
        /\ codecOut.encoded.res = "ok"
        /\ codecOut.decoded.res = "ok"
        /\ NatToBits(codecOut.decoded.len, UintWidth) = BytesToBits(codecIn.len)
        /\ codecOut.decoded.rest = <<>>
        /\ codecOut.encoded.bytes # <<>> => codecOut.truncated.res = "insufficient-data"

\* C17: encodeControl puts the network-layer flag in bit 7, destination
\* present in bit 5, source present in bit 3, expecting reply in bit 2 and
\* the priority in bits 1-0, bits 6 and 4 being 0; decodeControl gives the
\* Control value back.
C17_ControlByte ==
    (codecIn.op = "control" /\ codecOut.res = "done") =>
        /\ codecOut.encoded =
              128 * (IF codecIn.ctrl.IsNDSUNetworkLayerMessage THEN 1 ELSE 0)
              + 32 * (IF codecIn.ctrl.DestinationAddressPresent THEN 1 ELSE 0)
              + 8 * (IF codecIn.ctrl.SourceAddressPresent THEN 1 ELSE 0)
              + 4 * (IF codecIn.ctrl.IsBACNetConfirmedRequestPDUPresent THEN 1 ELSE 0)
              + codecIn.ctrl.Priority
        /\ codecOut.decoded = codecIn.ctrl

\* the control of TestControl: urgent, source present, network-layer message
C17_Witness ==
    /\ codecIn.op = "control"
    /\ codecIn.ctrl.Priority = 1
    /\ codecIn.ctrl.SourceAddressPresent
    /\ codecIn.ctrl.IsNDSUNetworkLayerMessage
    /\ ~codecIn.ctrl.DestinationAddressPresent
    /\ ~codecIn.ctrl.IsBACNetConfirmedRequestPDUPresent
    /\ codecOut.res = "done"
    /\ codecOut.encoded = 137

\* bytes is the prescribed form of address a: network in two bytes, the
\* length byte, then exactly a.Length bytes of a.Addr
AddressLaidOut(bytes, a) ==
    /\ Len(bytes) = 3 + a.Length
    /\ bytes[1] = a.Network \div 256
    /\ bytes[2] = a.Network % 256
    /\ bytes[3] = a.Length
    /\ \A i \in 1..a.Length : i <= Len(a.Addr) /\ bytes[3 + i] = a.Addr[i]

\* the number of bytes an optional address takes when its bit is set
AddressSpan(present, addr) == IF present THEN 3 + addr[1].Length ELSE 0

\* the last part of an NPDU: the message type or the encoded APDU
NPDUPayload(m) ==
    IF m.Control.IsNDSUNetworkLayerMessage THEN <<m.MessageType>>
    ELSE apduEncode(m.APDU).bytes

\* C18: the bytes Message.Encode returns are the version, the control byte,
\* the destination address iff its bit is set, the source address iff its
\* bit is set, the hop count iff the destination bit is set, then the
\* message type (network-layer message) or the encoded APDU (otherwise); an
\* address is two bytes of network, the length byte and exactly `length`
\* address bytes.
C18_NPDULayout ==
    (codecIn.op = "npdu" /\ codecOut.res = "done" /\ codecOut.encoded.res = "ok") =>
        LET m == codecIn.m
            bytes == codecOut.encoded.bytes
            D == m.Control.DestinationAddressPresent
            S == m.Control.SourceAddressPresent
            dstLen == AddressSpan(D, m.Destination)
            srcLen == AddressSpan(S, m.Source)
            hopLen == IF D THEN 1 ELSE 0
            fixed == 2 + dstLen + srcLen + hopLen
        IN  /\ Len(bytes) = fixed + Len(NPDUPayload(m))
            /\ bytes[1] = m.ProtocolVersion
            /\ bytes[2] = encodeControl(m.Control)
            /\ D => AddressLaidOut(SubSeq(bytes, 3, 2 + dstLen), m.Destination[1])
            /\ S => AddressLaidOut(SubSeq(bytes, 3 + dstLen, 2 + dstLen + srcLen),
                                   m.Source[1])
            /\ D => bytes[fixed] = m.HopCount
            /\ SubSeq(bytes, fixed + 1, Len(bytes)) = NPDUPayload(m)

\* an optional address whose Length is the number of bytes of its Addr
AddressConsistent(addr) == addr = <<>> \/ addr[1].Length = Len(addr[1].Addr)

\* a message whose optional fields are present exactly when the control
\* says so, and whose vendor id goes with a network-layer message
WellFormedNPDU(m) ==
    /\ m.ProtocolVersion = DefaultProtocolVersion
    /\ m.Control.DestinationAddressPresent <=> m.Destination # <<>>
    /\ m.Control.SourceAddressPresent <=> m.Source # <<>>
    /\ AddressConsistent(m.Destination)
    /\ AddressConsistent(m.Source)
    /\ m.Control.IsNDSUNetworkLayerMessage <=> m.APDU.res = "nil"
    /\ m.VendorID # <<>> => m.Control.IsNDSUNetworkLayerMessage
    /\ (m.Control.IsNDSUNetworkLayerMessage /\ IsProprietary(m.MessageType))
          => m.VendorID # <<>>

\* C19: the encoded form of a well-formed NPDU message begins with the
\* version 1 and the control byte, and decoding it gives a message with the
\* same version, control, destination, source, message type, vendor id and
\* APDU.
C19_NPDURoundTrip ==
    (codecIn.op = "npdu" /\ codecOut.res = "done" /\ WellFormedNPDU(codecIn.m)) =>
        LET m == codecIn.m
            d == codecOut.decoded
        IN  /\ codecOut.encoded.res = "ok"
            /\ SubSeq(codecOut.encoded.bytes, 1, 2) = <<1, encodeControl(m.Control)>>
            /\ d.res = "ok"
            /\ d.ProtocolVersion = m.ProtocolVersion
            /\ d.Control = m.Control
            /\ d.Destination = m.Destination
            /\ d.Source = m.Source
            /\ m.Control.IsNDSUNetworkLayerMessage => d.MessageType = m.MessageType
            /\ d.VendorID = m.VendorID
            /\ d.APDU = m.APDU

\* C20: Encode of a BVLC message gives 0x81, the function byte, the length
\* 4 + len(Data) in two bytes, big-endian, then Data; NewBVLCMessageFromBytes
\* on these bytes returns the same Function and Data.
C20_BVLCRoundTrip ==
    (codecIn.op = "bvlc" /\ codecOut.res = "done") =>
        LET m == codecIn.m
            bytes == codecOut.encoded
        IN  /\ Len(bytes) = 4 + Len(m.Data)
            /\ bytes[1] = 129
            /\ bytes[2] = m.Function
            /\ bytes[3] * 256 + bytes[4] = 4 + Len(m.Data)
            /\ SubSeq(bytes, 5, Len(bytes)) = m.Data
            /\ codecOut.decoded.res = "ok"
            /\ codecOut.decoded.Function = m.Function
            /\ codecOut.decoded.Data = m.Data

\* the results of NewBVLCMessageFromBytes that are a returned error
BVLCErrors == {"EOF", "type-mismatch", "invalid-function", "short-length", "short-data"}

\* C21: NewBVLCMessageFromBytes returns an error and no message for every
\* buffer whose first byte is not 0x81 and for every buffer whose function
\* byte is not one of 0, 1, 2, 3, 4, 10, 11.
C21_BVLCRejects ==
    (/\ codecIn.op = "bvlcdecode"
     /\ codecOut.res = "done"
     /\ \/ Len(codecIn.buf) >= 1 /\ codecIn.buf[1] # 129
        \/ Len(codecIn.buf) >= 2 /\ codecIn.buf[2] \notin {0, 1, 2, 3, 4, 10, 11})
    => /\ codecOut.decoded.res \in BVLCErrors
       /\ DOMAIN codecOut.decoded = {"res"}

\* a whole frame of the right type with function byte 5 has been refused
C21_Witness ==
    /\ codecIn.op = "bvlcdecode"
    /\ codecIn.buf = <<129, 5, 0, 6, 1, 2>>
    /\ codecOut.res = "done"
    /\ codecOut.decoded.res = "invalid-function"

\* the bytes of a buffer beyond its declared length
ExcessBytes(buf) == SubSeq(buf, buf[3] * 256 + buf[4] + 1, Len(buf))

\* C22: a buffer longer than its declared length is accepted only when
\* every excess byte is 0, and Data is then bytes 4 up to the declared
\* length; a declared length beyond the buffer, below the 4-byte header, or
\* followed by bytes that are not all 0 gives a returned error, not a crash.
C22_BVLCDeclaredLength ==
    (/\ codecIn.op = "bvlcdecode"
     /\ codecOut.res = "done"
     /\ Len(codecIn.buf) >= 4
     /\ codecIn.buf[1] = 129
     /\ codecIn.buf[2] \in {0, 1, 2, 3, 4, 10, 11})
    => LET buf == codecIn.buf
           declared == buf[3] * 256 + buf[4]
           d == codecOut.decoded
       IN  /\ (declared > Len(buf) \/ declared < 4) => d.res \in BVLCErrors
           /\ (declared >= 4 /\ declared <= Len(buf)
                 /\ \E i \in DOMAIN ExcessBytes(buf) : ExcessBytes(buf)[i] # 0)
                => d.res \in BVLCErrors
           /\ d.res = "ok" => d.Data = SubSeq(buf, 5, declared)

\* context tag n carrying an 8-byte value in its minimal number of bytes:
\* the tag number in the high nibble, the class bit, the number of bytes L
\* in the low bits (5 and one more byte holding L when L > 4), then the L
\* low bytes of the value
MinimalContextTag(n, val) ==
    LET L == SignificantBytes(val) IN
    (IF L <= 4 THEN <<16 * n + 8 + L>> ELSE <<16 * n + 8 + 5, L>>)
        \o SubSeq(val, 9 - L, 8)

\* C23: the frame of a Who-Is(low, high) sent without addresses is 0x81,
\* 0x0B, the total length in two bytes, 0x01, a control byte that is the
\* priority, 0x10, 0x08, context tag 0 with low and context tag 1 with high,
\* each in its minimal number of bytes; Who-Is(0, 999) at priority 0 is
\* 81 0B 00 0D 01 00 10 08 09 00 1A 03 E7.
C23_WhoIsFrame ==
    (codecIn.op = "whois" /\ codecOut.res = "done") =>
        LET tags == MinimalContextTag(0, codecIn.low) \o MinimalContextTag(1, codecIn.high)
            total == 8 + Len(tags)
        IN  /\ codecOut.sent.res = "ok"
            /\ codecOut.sent.msgBytes =
                  <<129, 11, total \div 256, total % 256, 1, codecIn.priority, 16, 8>>
                      \o tags
            /\ (/\ codecIn.priority = 0
                /\ codecIn.low = <<0, 0, 0, 0, 0, 0, 0, 0>>
                /\ codecIn.high = <<0, 0, 0, 0, 0, 0, 3, 231>>)
               => codecOut.sent.msgBytes = <<129, 11, 0, 13, 1, 0, 16, 8, 9, 0, 26, 3, 231>>

\* Who-Is(0, 999) at priority 0 has been framed
C23_Witness ==
    /\ codecIn.op = "whois"
    /\ codecIn.priority = 0
    /\ codecIn.low = <<0, 0, 0, 0, 0, 0, 0, 0>>
    /\ codecIn.high = <<0, 0, 0, 0, 0, 0, 3, 231>>
    /\ codecOut.res = "done"
    /\ codecOut.sent.msgBytes = <<129, 11, 0, 13, 1, 0, 16, 8, 9, 0, 26, 3, 231>>

\* the results of Message.Encode that are a returned error
NPDUEncodeErrors == {"no-apdu", "not-implemented"}

\* C27: for a message whose control has the destination (or source) bit set
\* and whose Destination (or Source) is absent, Message.Encode returns an
\* error and no bytes.
C27_EncodeMissingAddress ==
    (/\ codecIn.op = "npdu"
     /\ codecOut.res = "done"
     /\ \/ codecIn.m.Control.DestinationAddressPresent /\ codecIn.m.Destination = <<>>
        \/ codecIn.m.Control.SourceAddressPresent /\ codecIn.m.Source = <<>>)
    => /\ codecOut.encoded.res \notin {"ok", "panic"}
       /\ codecOut.encoded.bytes = <<>>

\* C29: on a buffer whose first byte has high nibble 0, NewMessageFromBytes
\* returns a message or an error and never reads past the end; a buffer too
\* short for the service-choice byte (3 bytes when not segmented, 5 when
\* segmented) gets an error; the sequence number and the window size are in
\* the result exactly when is_segmented is decoded as true.
C29_ConfirmedDecodeBounds ==
    (/\ codecIn.op = "apdudecode"
     /\ codecOut.res = "done"
     /\ Len(codecIn.data) >= 1
     /\ codecIn.data[1] \div 16 = 0)
    => LET data == codecIn.data
           d == codecOut.decoded
           segmented == (data[1] \div 4) % 2 = 1
       IN  /\ d.res # "panic"
           /\ Len(data) <= (IF segmented THEN 5 ELSE 3) => d.res = "insufficient-length"
           /\ d.res = "ok" =>
                 /\ d.IsSegmented = segmented
                 /\ d.SequenceNumber # <<>> <=> d.IsSegmented
                 /\ d.ProposedWindowSize # <<>> <=> d.IsSegmented

\* C26: once connection.Stop has returned, the listener started by Start
\* puts no datagram on the data channel and the dispatch loop takes none
\* from it and routes none.
C26_StopJoinsTasks ==
    [][cpc = "stopped" =>
          UNCHANGED <<dataChannel, lpc, loopMsg, routeTargets, sentBVLC>>]_vars

\* RouteMessage is at a send on the channel of the default handler, and the
\* channel is full
DispatchBlocked ==
    /\ lpc = "routing"
    /\ routeTargets # <<>>
    /\ Head(routeTargets) = DefaultHandler
    /\ Len(bvlcCh) >= DefaultBVLCChannelCap

\* C24: RouteMessage does not hold the lock of the registry across a send:
\* while a dispatch is blocked on a full handler channel, a call of
\* RegisterBVLCHandler that has reached mux.Lock() can take the lock and
\* complete.
C24_RegisterWhileDispatchBlocked ==
    \A t \in RegTasks :
        (/\ rtask[t].pc = "snapshotted"
         /\ rtask[t].call.reg = "bvlc"
         /\ ~WriteLocked("bvlc")
         /\ DispatchBlocked)
        => ~ReadLocked("bvlc")

\* C25: no task is writing a registry under the write lock while a dispatch
\* task is reading the same registry.
C25_RegistryAccessLocked ==
    \A t \in RegTasks :
        rtask[t].pc = "locked" =>
            /\ rtask[t].call.reg = "bvlc" => lpc # "routing"
            /\ rtask[t].call.reg = "npdu" => g1pc # "sending"
            /\ rtask[t].call.reg = "apdu" => g2pc # "sending"

\* C28: when two tasks have registered two different handlers under the
\* same filter of one registry and both calls have returned, the list under
\* that filter holds both handlers and everything that was there before.
C28_NoLostRegistration ==
    \A t, u \in RegTasks :
        (/\ rtask[t].pc = "returned" /\ rtask[u].pc = "returned"
         /\ rtask[t].call.reg = rtask[u].call.reg
         /\ rtask[t].call.filter = rtask[u].call.filter
         /\ rtask[t].call.handler # rtask[u].call.handler)
        => LET stored == RegistryOf(rtask[t].call.reg)[rtask[t].call.filter] IN
           /\ isRegistered(rtask[t].call.handler, stored)
           /\ isRegistered(rtask[u].call.handler, stored)
           /\ \A i \in 1..Len(rtask[t].writeHandlers) :
                 isRegistered(rtask[t].writeHandlers[i], stored)

\* C30: one call of RouteMessage sends the message at most once on the
\* channel of each handler, whatever the filters the handler is stored
\* under.
C30_AtMostOncePerHandler ==
    \A h \in BVLCHandlers : \A i \in 1..MaxDatagrams :
        Cardinality({k \in 1..Len(sentBVLC[h]) : sentBVLC[h][k] = i}) <= 1

=============================================================================
